---- MODULE Spec2Model ----
(***************************************************************************)
(* Model of agentgraph/src/apps.py: the Streamlit chat shell around        *)
(* ChatBot.respond and PrepareVectorDB.run.                                *)
(*                                                                         *)
(* Streamlit re-executes the whole script on every UI event, so every      *)
(* action below is one complete script run for one widget event.           *)
(* st.rerun() halts the current script run (it raises a control-flow       *)
(* exception that derives from BaseException, which `except Exception`     *)
(* does not catch) and queues one more run.  Streamlit display calls       *)
(* (st.write, st.error, st.chat_message, ...) are taken to return          *)
(* normally.  Emoji literals of the source are written as ASCII words:     *)
(* "robot", "warning", "technologist".                                     *)
(***************************************************************************)
EXTENDS Integers, Sequences, FiniteSets, TLC

\* Bound on the number of chat turns kept in session state between clears.
MaxTurns == 2

\* Python's None.
None == "None"

\* Inputs of the collaborators and of the environment.
Prompts == {"p1"}
Responses == {"r1"}
ExcTexts == {"timeout"}
ApiKey == "sk-key"
EnvValues == {None, "", ApiKey}
DotenvValues == {None, ApiKey}
ImageFiles == {"images/AI_RT.png", "images/openai.png"}
RespondOutcomes == {"extended", "empty", "none", "raise"}
PrepareOutcomes == {"ok", "raise_before_run", "raise_in_run"}

VARIABLES
    messages,             \* st.session_state.messages
    gradio_chat_history,  \* st.session_state.gradio_chat_history
    environ,              \* os.environ["OPENAI_API_KEY"] (None when unset)
    dotenv,               \* OPENAI_API_KEY in the .env file (None when absent)
    config_ok,            \* configs/tools_config.yml can be opened and parsed
    files,                \* which avatar image files exist on disk
    rerun_pending,        \* st.rerun() was called: one more script run is queued
    lastRun               \* what the latest script run did and rendered

vars == <<messages, gradio_chat_history, environ, dotenv, config_ok, files,
          rerun_pending, lastRun>>

----------------------------------------------------------------------------
\* Environment and framework helpers

\* load_dotenv() with override=False: a variable already set is kept.
load_dotenv(env, file) ==
    IF env = None /\ file # None THEN file ELSE env

\* Python truthiness of os.getenv's result.
bool_str(v) == v # None /\ v # ""

\* st.button(..., key, disabled): TRUE in the run that handles its click.
st_button(event, key, disabled) == event = key /\ ~disabled

Message(role, content, avatar) ==
    [role |-> role, content |-> content, avatar |-> avatar]

UserCount(msgs) == Len(SelectSeq(msgs, LAMBDA m : m.role = "user"))

----------------------------------------------------------------------------
\* Vector database creation

CreateCall(fn, outcome, e, collection, label) ==
    [fn        |-> fn,
     outcome   |-> outcome,
     exc       |-> IF outcome = "ok" THEN None ELSE e,
     runs      |-> IF outcome \in {"ok", "raise_in_run"} THEN <<collection>> ELSE <<>>,
     errors    |-> IF outcome = "ok" THEN <<>>
                   ELSE <<("Error creating " \o label) \o (" database: " \o e)>>,
     rerun     |-> outcome = "ok",
     escaped   |-> IF outcome = "ok" THEN "RerunException" ELSE None]

create_swiss_database_rerun_always(outcome, e) ==
    [CreateCall("create_swiss_database", outcome, e, "swiss_airline_policy_rag", "Swiss")
        EXCEPT !.rerun = TRUE, !.escaped = "RerunException"]

create_swiss_database(outcome, e) ==
    CreateCall("create_swiss_database", outcome, e, "swiss_airline_policy_rag", "Swiss")

create_stories_database(outcome, e) ==
    CreateCall("create_stories_database", outcome, e, "stories_rag", "Stories")

Halted(creates) == \E i \in 1..Len(creates) : creates[i].rerun

\* with st.spinner(...): create_swiss_database(...); create_stories_database(...)
create_all_databases(o1, o2, e) ==
    LET c1 == create_swiss_database(o1, e)
    IN IF c1.rerun THEN <<c1>> ELSE <<c1, create_stories_database(o2, e)>>

sidebar_api_key_available_set(env) == env # None

sidebar_api_key_available(env) == bool_str(env)

manager_api_key_available(env) == bool_str(env)

sidebar_vector_database(event, cfg, env, o1, o2, e) ==
    LET api_key_available == sidebar_api_key_available(env)
    IN [config_loaded     |-> cfg,
        api_key_available |-> cfg /\ api_key_available,
        creates           |->
            IF ~cfg THEN <<>>
            ELSE IF st_button(event, "swiss_create", ~api_key_available)
                 THEN <<create_swiss_database(o1, e)>>
            ELSE IF st_button(event, "stories_create", ~api_key_available)
                 THEN <<create_stories_database(o2, e)>>
            ELSE IF st_button(event, "create_all", ~api_key_available)
                 THEN create_all_databases(o1, o2, e)
            ELSE <<>>]

manager_tab(event, cfg, env, o1, o2, e) ==
    LET api_key_available == manager_api_key_available(env)
    IN [config_loaded     |-> cfg,
        api_key_available |-> cfg /\ api_key_available,
        creates           |->
            IF ~cfg THEN <<>>
            ELSE IF st_button(event, "swiss_detail_create", ~api_key_available)
                 THEN <<create_swiss_database(o1, e)>>
            ELSE IF st_button(event, "stories_detail_create", ~api_key_available)
                 THEN <<create_stories_database(o2, e)>>
            ELSE IF st_button(event, "manager_create_all", ~api_key_available)
                 THEN create_all_databases(o1, o2, e)
            ELSE <<>>]

----------------------------------------------------------------------------
\* Chat

clear_chat_keep_gradio(msgs, gch) ==
    [messages |-> <<>>, gradio_chat_history |-> gch]

clear_chat(msgs, gch) ==
    [messages |-> <<>>, gradio_chat_history |-> <<>>]

session_stats(msgs) ==
    IF msgs # <<>>
    THEN [shown |-> TRUE, messages |-> Len(msgs), conversations |-> Len(msgs) \div 2]
    ELSE [shown |-> FALSE, messages |-> 0, conversations |-> 0]

add_user_message_replace(msgs, prompt, fs) ==
    <<Message("user", prompt,
              IF "images/AI_RT.png" \in fs THEN "images/AI_RT.png" ELSE "technologist")>>

add_user_message(msgs, prompt, fs) ==
    Append(msgs, Message("user", prompt,
              IF "images/AI_RT.png" \in fs THEN "images/AI_RT.png" ELSE "technologist"))

gradio_format(msgs) ==
    LET users == SelectSeq(msgs, LAMBDA m : m.role = "user")
    IN [i \in 1..Len(users) |-> <<users[i].content, None>>]

sync_gradio_history_keep(msgs, gch) == gch

sync_gradio_history(msgs, gch) ==
    LET gf == gradio_format(msgs)
    IN IF Len(gf) > Len(gch) THEN SubSeq(gf, 1, Len(gf) - 1) ELSE gch

NoResult == [kind |-> "not_called", history |-> <<>>, exc |-> None]

\* ChatBot.respond(history, prompt) -> (_, updated_history)
ChatBot_respond(history, prompt, outcome, resp, e) ==
    CASE outcome = "extended" ->
            [kind |-> "returned", history |-> Append(history, <<prompt, resp>>), exc |-> None]
      [] outcome = "empty" ->
            [kind |-> "returned", history |-> <<>>, exc |-> None]
      [] outcome = "none" ->
            [kind |-> "returned_none", history |-> <<>>, exc |-> None]
      [] OTHER ->
            [kind |-> "raised", history |-> <<>>, exc |-> e]

FallbackMsg == "I'm sorry, I couldn't process your request at the moment."

handle_response_silent_fallback(msgs, gch, result, fs) ==
    IF result.kind = "returned" /\ Len(result.history) > 0
    THEN [messages |-> Append(msgs, Message("assistant",
                          result.history[Len(result.history)][2],
                          IF "images/openai.png" \in fs THEN "images/openai.png" ELSE "robot")),
          gradio_chat_history |-> result.history]
    ELSE [messages |-> msgs, gradio_chat_history |-> gch]

handle_response(msgs, gch, result, fs) ==
    IF result.kind = "returned" /\ Len(result.history) > 0
    THEN LET latest_response == result.history[Len(result.history)][2]
             bot_avatar == IF "images/openai.png" \in fs THEN "images/openai.png" ELSE "robot"
         IN [messages |-> Append(msgs, Message("assistant", latest_response, bot_avatar)),
             gradio_chat_history |-> result.history]
    ELSE [messages |-> Append(msgs, Message("assistant", FallbackMsg, "robot")),
          gradio_chat_history |-> gch]

handle_exception_no_entry(msgs, e) == msgs

handle_exception_bot_avatar(msgs, e) ==
    Append(msgs, Message("assistant", "An error occurred: " \o e, "robot"))

handle_exception(msgs, e) ==
    Append(msgs, Message("assistant", "An error occurred: " \o e, "warning"))

chat_input_handler(msgs, gch, prompt, outcome, resp, e, fs) ==
    LET m1 == add_user_message(msgs, prompt, fs)
        h == sync_gradio_history(m1, gch)
        result == ChatBot_respond(h, prompt, outcome, resp, e)
        after == IF result.kind = "raised"
                 THEN [messages |-> handle_exception(m1, result.exc),
                       gradio_chat_history |-> h]
                 ELSE handle_response(m1, h, result, fs)
    IN [messages            |-> after.messages,
        gradio_chat_history |-> after.gradio_chat_history,
        respondCalls        |-> <<[history |-> h, prompt |-> prompt]>>,
        respondResult       |-> result]

NoChat(msgs, gch) ==
    [messages            |-> msgs,
     gradio_chat_history |-> gch,
     respondCalls        |-> <<>>,
     respondResult       |-> NoResult]

----------------------------------------------------------------------------
\* One script run

Page(event, prompt, stats, cfg, key, creates, chat) ==
    [event             |-> event,
     prompt            |-> prompt,
     stats             |-> stats,
     config_loaded     |-> cfg,
     api_key_available |-> key,
     creates           |-> creates,
     respondCalls      |-> chat.respondCalls,
     respondResult     |-> chat.respondResult,
     rerun             |-> event = "clear_chat" \/ Halted(creates)]

ScriptRun(event, prompt, ro, resp, e, o1, o2) ==
    LET env1 == load_dotenv(environ, dotenv)
    IN /\ environ' = env1
       /\ UNCHANGED <<dotenv, config_ok, files>>
       /\ IF st_button(event, "clear_chat", FALSE)
          THEN LET c == clear_chat(messages, gradio_chat_history)
               IN /\ messages' = c.messages
                  /\ gradio_chat_history' = c.gradio_chat_history
                  /\ rerun_pending' = TRUE
                  /\ lastRun' = Page(event, None, session_stats(<<>>), FALSE, FALSE, <<>>,
                                     NoChat(<<>>, <<>>))
          ELSE LET stats == session_stats(messages)
                   side == sidebar_vector_database(event, config_ok, env1, o1, o2, e)
                   halted == Halted(side.creates)
                   chat == IF ~halted /\ event = "chat_input"
                           THEN chat_input_handler(messages, gradio_chat_history,
                                                   prompt, ro, resp, e, files)
                           ELSE NoChat(messages, gradio_chat_history)
                   tab == IF halted THEN <<>>
                          ELSE manager_tab(event, config_ok, env1, o1, o2, e).creates
                   creates == side.creates \o tab
               IN /\ messages' = chat.messages
                  /\ gradio_chat_history' = chat.gradio_chat_history
                  /\ rerun_pending' = Halted(creates)
                  /\ lastRun' = Page(event, prompt, stats, side.config_loaded,
                                     side.api_key_available, creates, chat)

BlankPage ==
    Page("none", None, session_stats(<<>>), FALSE, FALSE, <<>>, NoChat(<<>>, <<>>))

Init ==
    /\ messages = <<>>
    /\ gradio_chat_history = <<>>
    /\ dotenv \in DotenvValues
    /\ \E e0 \in EnvValues : environ = load_dotenv(e0, dotenv)
    /\ config_ok \in BOOLEAN
    /\ files \in {{}, ImageFiles}
    /\ rerun_pending = FALSE
    /\ lastRun = [BlankPage EXCEPT !.config_loaded = config_ok,
                                   !.api_key_available = config_ok /\ bool_str(environ)]

Rerun ==
    /\ rerun_pending
    /\ ScriptRun("none", None, "none", None, None, "ok", "ok")

ClearChat ==
    /\ ~rerun_pending
    /\ ScriptRun("clear_chat", None, "none", None, None, "ok", "ok")

SubmitPrompt ==
    /\ ~rerun_pending
    /\ Len(messages) < 2 * MaxTurns
    /\ \E p \in Prompts, ro \in RespondOutcomes, r \in Responses, e \in ExcTexts :
          ScriptRun("chat_input", p, ro, r, e, "ok", "ok")

SidebarSwissCreate ==
    /\ ~rerun_pending
    /\ \E o \in PrepareOutcomes, e \in ExcTexts :
          ScriptRun("swiss_create", None, "none", None, e, o, "ok")

SidebarStoriesCreate ==
    /\ ~rerun_pending
    /\ \E o \in PrepareOutcomes, e \in ExcTexts :
          ScriptRun("stories_create", None, "none", None, e, "ok", o)

SidebarCreateAll ==
    /\ ~rerun_pending
    /\ \E o1 \in PrepareOutcomes, o2 \in PrepareOutcomes, e \in ExcTexts :
          ScriptRun("create_all", None, "none", None, e, o1, o2)

ManagerSwissCreate ==
    /\ ~rerun_pending
    /\ \E o \in PrepareOutcomes, e \in ExcTexts :
          ScriptRun("swiss_detail_create", None, "none", None, e, o, "ok")

ManagerStoriesCreate ==
    /\ ~rerun_pending
    /\ \E o \in PrepareOutcomes, e \in ExcTexts :
          ScriptRun("stories_detail_create", None, "none", None, e, "ok", o)

ManagerCreateAll ==
    /\ ~rerun_pending
    /\ \E o1 \in PrepareOutcomes, o2 \in PrepareOutcomes, e \in ExcTexts :
          ScriptRun("manager_create_all", None, "none", None, e, o1, o2)

ClearDatabaseCache ==
    /\ ~rerun_pending
    /\ ScriptRun("clear_database_cache", None, "none", None, None, "ok", "ok")

\* The user edits the .env file between script runs.
EditDotenv ==
    /\ ~rerun_pending
    /\ \E v \in DotenvValues : dotenv' = v
    /\ UNCHANGED <<messages, gradio_chat_history, environ, config_ok, files,
                   rerun_pending, lastRun>>

\* configs/tools_config.yml appears, disappears or becomes unreadable.
ConfigFileChange ==
    /\ ~rerun_pending
    /\ config_ok' = ~config_ok
    /\ UNCHANGED <<messages, gradio_chat_history, environ, dotenv, files,
                   rerun_pending, lastRun>>

Next ==
    \/ Rerun
    \/ ClearChat
    \/ SubmitPrompt
    \/ SidebarSwissCreate
    \/ SidebarStoriesCreate
    \/ SidebarCreateAll
    \/ ManagerSwissCreate
    \/ ManagerStoriesCreate
    \/ ManagerCreateAll
    \/ ClearDatabaseCache
    \/ EditDotenv
    \/ ConfigFileChange

Spec == Init /\ [][Next]_vars

----------------------------------------------------------------------------
\* Properties

\* A step that is the script run handling a submitted prompt.
ChatRun == lastRun' # lastRun /\ lastRun'.event = "chat_input"

\* A step that is the script run handling a press of Clear Chat.
ClearRun == lastRun' # lastRun /\ lastRun'.event = "clear_chat"

IsPrefix(s, t) == Len(s) <= Len(t) /\ SubSeq(t, 1, Len(s)) = s

RunCalls(page) ==
    LET F[i \in 0..Len(page.creates)] ==
            IF i = 0 THEN <<>> ELSE F[i - 1] \o page.creates[i].runs
    IN F[Len(page.creates)]

ErrorsShown(page) ==
    LET F[i \in 0..Len(page.creates)] ==
            IF i = 0 THEN <<>> ELSE F[i - 1] \o page.creates[i].errors
    IN F[Len(page.creates)]

CreateAllEvents == {"create_all", "manager_create_all"}

\* The assistant content the claim expects for what ChatBot.respond did.
ExpectedContent(result) ==
    CASE result.kind = "raised" -> "An error occurred: " \o result.exc
      [] result.kind = "returned" /\ Len(result.history) > 0 ->
            result.history[Len(result.history)][2]
      [] OTHER -> FallbackMsg

\* C1: handling a submitted prompt M appends exactly two entries to messages,
\* whatever ChatBot.respond does: a 'user' entry with content M, then one
\* 'assistant' entry holding the latest response, the fallback text or the
\* 'An error occurred: ...' text.
C1_PromptAppendsUserThenAssistant ==
    [][ChatRun =>
          /\ Len(messages') = Len(messages) + 2
          /\ SubSeq(messages', 1, Len(messages)) = messages
          /\ messages'[Len(messages) + 1].role = "user"
          /\ messages'[Len(messages) + 1].content = lastRun'.prompt
          /\ messages'[Len(messages) + 2].role = "assistant"
          /\ messages'[Len(messages) + 2].content = ExpectedContent(lastRun'.respondResult)
       ]_vars

\* C1 witness: a prompt was handled in the fallback branch after respond returned None.
C1_Witness ==
    /\ lastRun.event = "chat_input"
    /\ lastRun.respondResult.kind = "returned_none"
    /\ Len(messages) = 2
    /\ messages[2].content = FallbackMsg

\* C2: messages is append-only: every step keeps the existing entries in place
\* and adds new ones at the end, except Clear Chat, which removes all of them.
C2_MessagesAppendOnly ==
    [][\/ IsPrefix(messages, messages')
       \/ (messages' = <<>> /\ lastRun'.event = "clear_chat")
      ]_vars

\* C2 witness: a database button was handled while two turns were in the list.
C2_Witness ==
    /\ Len(messages) = 4
    /\ lastRun.event \in {"swiss_create", "stories_detail_create"}
    /\ lastRun.creates # <<>>

\* C3: when ChatBot.respond raises, it was called exactly once for the prompt,
\* the failure is recorded as one assistant entry 'An error occurred: <text>'
\* with the warning avatar, the script run completes without a rerun, and a
\* prompt submitted after a failed turn is handled like any other.
C3_RespondFailureRecordedOnce ==
    [][ChatRun =>
          /\ Len(lastRun'.respondCalls) = 1
          /\ lastRun'.respondCalls[1].prompt = lastRun'.prompt
          /\ ~lastRun'.rerun
          /\ lastRun'.respondResult.kind = "raised" =>
                /\ Len(messages') = Len(messages) + 2
                /\ messages'[Len(messages') - 1].role = "user"
                /\ messages'[Len(messages')] =
                      Message("assistant",
                              "An error occurred: " \o lastRun'.respondResult.exc,
                              "warning")
          /\ (messages # <<>> /\ messages[Len(messages)].avatar = "warning")
                => messages'[Len(messages')].content = ExpectedContent(lastRun'.respondResult)
       ]_vars

\* C3 witness: a failed turn followed by a turn that got the bot's response.
C3_Witness ==
    /\ lastRun.event = "chat_input"
    /\ Len(messages) = 4
    /\ messages[2].avatar = "warning"
    /\ messages[4].content \in Responses

\* C4: each call of create_swiss_database / create_stories_database invokes
\* PrepareVectorDB.run() at most once and only for its own collection, and
\* either run() returned normally, a rerun is requested and no error is shown,
\* or something raised, exactly one 'Error creating ... database' message is
\* shown, no rerun is requested and the exception does not reach the caller.
C4_CreateOutcomes ==
    \A i \in 1..Len(lastRun.creates) :
        LET c == lastRun.creates[i]
            own == IF c.fn = "create_swiss_database"
                   THEN "swiss_airline_policy_rag" ELSE "stories_rag"
            label == IF c.fn = "create_swiss_database" THEN "Swiss" ELSE "Stories"
        IN /\ c.fn \in {"create_swiss_database", "create_stories_database"}
           /\ Len(c.runs) <= 1
           /\ \A j \in 1..Len(c.runs) : c.runs[j] = own
           /\ c.outcome = "ok" =>
                 /\ c.runs = <<own>>
                 /\ c.rerun
                 /\ c.errors = <<>>
           /\ c.outcome # "ok" =>
                 /\ c.errors = <<("Error creating " \o label) \o (" database: " \o c.exc)>>
                 /\ ~c.rerun
                 /\ c.escaped = None
           /\ (c.outcome = "raise_before_run") => c.runs = <<>>

\* C4 witness: Create All ran both functions, the first failed inside run().
C4_Witness ==
    /\ lastRun.event = "create_all"
    /\ Len(lastRun.creates) = 2
    /\ lastRun.creates[1].outcome = "raise_in_run"
    /\ lastRun.creates[2].outcome = "ok"

\* C5: one press of Create All Databases, with the configuration loaded and
\* the API key present, calls the Swiss creation and then the Stories
\* creation, whether the Swiss creation succeeds or fails.
C5_CreateAllRunsBoth ==
    (/\ lastRun.event \in CreateAllEvents
     /\ lastRun.config_loaded
     /\ lastRun.api_key_available)
    => /\ Len(lastRun.creates) = 2
       /\ lastRun.creates[1].fn = "create_swiss_database"
       /\ lastRun.creates[2].fn = "create_stories_database"

\* C6: a prompt handled right after a successful turn passes to ChatBot.respond
\* the updated history which that turn's ChatBot.respond call returned.
C6_HistoryCarriedOver ==
    [][(/\ ChatRun
        /\ lastRun.event = "chat_input"
        /\ lastRun.respondResult.kind = "returned"
        /\ Len(lastRun.respondResult.history) > 0)
       => lastRun'.respondCalls[1].history = lastRun.respondResult.history
      ]_vars

\* C7: PrepareVectorDB.run() is not invoked in a script run in which
\* OPENAI_API_KEY is unset or empty, nor in one in which the configuration
\* file failed to load.
C7_NoRunWithoutKeyOrConfig ==
    (~bool_str(environ) \/ ~lastRun.config_loaded)
    => /\ RunCalls(lastRun) = <<>>
       /\ lastRun.creates = <<>>

\* C7 witness: a create button event arrived in a run with an empty key.
C7_Witness ==
    /\ environ = ""
    /\ lastRun.config_loaded
    /\ lastRun.event \in {"swiss_create", "manager_create_all"}
    /\ lastRun.creates = <<>>

\* C8: Clear Chat empties messages and gradio_chat_history, and the first
\* ChatBot.respond call after a clear receives an empty history.
C8_ClearResetsBoth ==
    [][/\ ClearRun => (messages' = <<>> /\ gradio_chat_history' = <<>>)
       /\ (ChatRun /\ messages = <<>>) => lastRun'.respondCalls[1].history = <<>>
      ]_vars

\* C8 witness: Clear Chat was just handled and its rerun is queued.
C8_Witness ==
    /\ lastRun.event = "clear_chat"
    /\ rerun_pending
    /\ messages = <<>>
    /\ gradio_chat_history = <<>>

\* C9: at every call of ChatBot.respond the history argument is as long as the
\* number of 'user' entries that were in messages before the current prompt.
C9_HistoryLengthIsUserCount ==
    [][ChatRun => Len(lastRun'.respondCalls[1].history) = UserCount(messages)]_vars

\* C9 witness: a prompt handled after a failed turn got a history of length 1.
C9_Witness ==
    /\ lastRun.event = "chat_input"
    /\ Len(messages) = 4
    /\ messages[2].content # "r1"
    /\ Len(lastRun.respondCalls[1].history) = 1

EvenAlternating(msgs) ==
    /\ Len(msgs) % 2 = 0
    /\ \A i \in 1..Len(msgs) :
          msgs[i].role = IF i % 2 = 1 THEN "user" ELSE "assistant"

\* C10: at the start of every script run messages has even length and its
\* roles alternate user, assistant; the Conversations metric rendered by the
\* run equals the number of prompts held in messages at that moment.
C10_EvenAlternatingAtRunStart ==
    [][/\ EvenAlternating(messages)
       /\ EvenAlternating(messages')
       /\ (lastRun' # lastRun /\ lastRun'.stats.shown) =>
             /\ lastRun'.stats.conversations = UserCount(messages)
             /\ lastRun'.stats.messages = 2 * UserCount(messages)
      ]_vars

\* C10 witness: the statistics showed two conversations.
C10_Witness ==
    /\ lastRun.stats.shown
    /\ lastRun.stats.conversations = 2
    /\ lastRun.event = "clear_database_cache"

====
